---- MODULE Spec2Model ----
(***************************************************************************)
(* Model of the Polly API client functions submitVote and fetchPollResults *)
(* (src/lib/poll-api.ts, restated in src/submitVote.ts and                 *)
(* src/fetchPollResults.ts).                                               *)
(*                                                                         *)
(* Strings are sequences of one-character strings, so that prefixes,       *)
(* concatenation, parseInt and number formatting are computed and not      *)
(* assumed.  JavaScript values are records tagged by the field t.          *)
(***************************************************************************)
EXTENDS Integers, Sequences, FiniteSets, TLC

VARIABLES call, sent, net, tallies

vars == <<call, sent, net, tallies>>

(***************************************************************************)
(* Bounds of the model.                                                    *)
(***************************************************************************)
\* Invocations that may run concurrently under SpecConc.
NCalls == 2
\* Longest option identifier string drawn as an input.
MaxLen == 2

Calls == 1..NCalls

(***************************************************************************)
(* String literals of the source.                                          *)
(***************************************************************************)
S_HTTP == <<"H","T","T","P"," ">>
S_ColonSpace == <<":"," ">>
S_NetworkError == <<"N","e","t","w","o","r","k"," ","e","r","r","o","r",":"," ">>
S_Bearer == <<"B","e","a","r","e","r"," ">>
S_Base == <<"h","t","t","p",":","/","/","l","o","c","a","l","h","o","s","t",":",
            "8","0","0","0","/","p","o","l","l","s","/">>
S_Vote == <<"/","v","o","t","e">>
S_Results == <<"/","r","e","s","u","l","t","s">>
S_AppJson == <<"a","p","p","l","i","c","a","t","i","o","n","/","j","s","o","n">>

\* Strings of the JavaScript runtime (String(x) of the non-string values).
S_null == <<"n","u","l","l">>
S_undefined == <<"u","n","d","e","f","i","n","e","d">>
S_true == <<"t","r","u","e">>
S_false == <<"f","a","l","s","e">>
S_object == <<"[","o","b","j","e","c","t"," ","O","b","j","e","c","t","]">>
S_NaN == <<"N","a","N">>

(***************************************************************************)
(* JavaScript values.                                                      *)
(***************************************************************************)
Undefined == [t |-> "undefined"]
Null == [t |-> "null"]
NaN == [t |-> "nan"]
Str(s) == [t |-> "str", s |-> s]
Num(n) == [t |-> "num", n |-> n]
Bool(b) == [t |-> "bool", b |-> b]
Arr(items) == [t |-> "arr", items |-> items]
\* An object literal; fields is a function from field names to values.
Obj(fields) == [t |-> "obj", fields |-> fields]
\* An instance of Error (or of a subclass: TypeError, SyntaxError).
ErrorObj(name, message) == [t |-> "Error", name |-> name, message |-> message]

DigitChar(d) ==
    CASE d = 0 -> "0" [] d = 1 -> "1" [] d = 2 -> "2" [] d = 3 -> "3"
      [] d = 4 -> "4" [] d = 5 -> "5" [] d = 6 -> "6" [] d = 7 -> "7"
      [] d = 8 -> "8" [] d = 9 -> "9"

RECURSIVE NatToStr(_)
NatToStr(n) ==
    IF n < 10 THEN <<DigitChar(n)>>
    ELSE NatToStr(n \div 10) \o <<DigitChar(n % 10)>>

\* Number.prototype.toString for the integers the model uses.
NumToStr(n) == IF n < 0 THEN <<"-">> \o NatToStr(0 - n) ELSE NatToStr(n)

RECURSIVE ToStringJS(_)
RECURSIVE JoinItems(_)
\* Array.prototype.join(","): null and undefined elements give "".
JoinItems(items) ==
    IF items = <<>> THEN <<>>
    ELSE LET h == Head(items)
             hs == IF h.t \in {"null", "undefined"} THEN <<>> ELSE ToStringJS(h)
         IN  IF Len(items) = 1 THEN hs
             ELSE hs \o <<",">> \o JoinItems(Tail(items))

\* String(v), also the conversion of `${v}` and of new Error(v).
ToStringJS(v) ==
    CASE v.t = "str" -> v.s
      [] v.t = "num" -> NumToStr(v.n)
      [] v.t = "nan" -> S_NaN
      [] v.t = "bool" -> IF v.b THEN S_true ELSE S_false
      [] v.t = "null" -> S_null
      [] v.t = "undefined" -> S_undefined
      [] v.t = "arr" -> JoinItems(v.items)
      [] v.t = "obj" -> S_object
      [] v.t = "Error" -> v.name \o S_ColonSpace \o v.message

\* ToBoolean(v): the test of `if (errorData.detail)`.
Truthy(v) ==
    CASE v.t = "str" -> v.s # <<>>
      [] v.t = "num" -> v.n # 0
      [] v.t = "nan" -> FALSE
      [] v.t = "bool" -> v.b
      [] v.t \in {"null", "undefined"} -> FALSE
      [] OTHER -> TRUE

\* new Error(message): the message is converted to a string.
NewError(message) == ErrorObj(<<"E","r","r","o","r">>, ToStringJS(message))

\* error instanceof Error
InstanceOfError(v) == v.t = "Error"

(***************************************************************************)
(* parseInt(string, 10).                                                   *)
(***************************************************************************)
IsDigit(ch) == ch \in {"0","1","2","3","4","5","6","7","8","9"}

DigitVal(ch) ==
    CASE ch = "0" -> 0 [] ch = "1" -> 1 [] ch = "2" -> 2 [] ch = "3" -> 3
      [] ch = "4" -> 4 [] ch = "5" -> 5 [] ch = "6" -> 6 [] ch = "7" -> 7
      [] ch = "8" -> 8 [] ch = "9" -> 9

IsWhiteSpace(ch) == ch = " "

RECURSIVE TrimStart(_)
TrimStart(s) ==
    IF s # <<>> /\ IsWhiteSpace(Head(s)) THEN TrimStart(Tail(s)) ELSE s

RECURSIVE DigitPrefix(_)
\* The longest prefix of s made of radix-10 digits.
DigitPrefix(s) ==
    IF s # <<>> /\ IsDigit(Head(s)) THEN <<Head(s)>> \o DigitPrefix(Tail(s))
    ELSE <<>>

RECURSIVE MathInt(_, _)
\* The value of the digit string z, accumulated left to right from acc.
MathInt(z, acc) ==
    IF z = <<>> THEN acc ELSE MathInt(Tail(z), 10 * acc + DigitVal(Head(z)))

\* The same steps with the sign dropped: parseInt of "-2" gives 2.
parseIntUnsigned(s) ==
    LET trimmed == TrimStart(s)
        signed == trimmed # <<>> /\ Head(trimmed) \in {"+", "-"}
        rest == IF signed THEN Tail(trimmed) ELSE trimmed
        z == DigitPrefix(rest)
    IN  IF z = <<>> THEN NaN ELSE Num(MathInt(z, 0))

\* parseInt(s, 10): leading white space is skipped, one sign is read, the
\* digits up to the first other character are the value; no digit gives NaN.
parseInt(s) ==
    LET trimmed == TrimStart(s)
        negative == trimmed # <<>> /\ Head(trimmed) = "-"
        signed == trimmed # <<>> /\ Head(trimmed) \in {"+", "-"}
        rest == IF signed THEN Tail(trimmed) ELSE trimmed
        z == DigitPrefix(rest)
    IN  IF z = <<>> THEN NaN
        ELSE Num(IF negative THEN 0 - MathInt(z, 0) ELSE MathInt(z, 0))

\* What the text of JSON.stringify(v) denotes: a NaN number is written null.
JSONstringify(v) ==
    CASE v.t = "nan" -> Null
      [] v.t = "obj" ->
            Obj([k \in DOMAIN v.fields |->
                    IF v.fields[k].t = "nan" THEN Null ELSE v.fields[k]])
      [] OTHER -> v

(***************************************************************************)
(* Requests and responses.                                                 *)
(***************************************************************************)
\* The vote request as fetchPollResults would send it were it to vote.
ResultsRequestPosting(pollId) ==
    [method |-> "POST",
     url |-> S_Base \o pollId \o S_Vote,
     headers |-> ("Content-Type" :> S_AppJson),
     body |-> JSONstringify(Obj([option_id |-> Num(1)]))]

\* const url, and the arguments of fetch in fetchPollResults.
ResultsRequest(pollId) ==
    [method |-> "GET",
     url |-> S_Base \o pollId \o S_Results,
     headers |-> ("Content-Type" :> S_AppJson),
     body |-> Undefined]

\* const url, requestBody and the arguments of fetch in submitVote.
VoteRequest(pollId, optionId, token) ==
    [method |-> "POST",
     url |-> S_Base \o pollId \o S_Vote,
     headers |-> ("Content-Type" :> S_AppJson)
                    @@ ("Authorization" :> S_Bearer \o token),
     body |-> JSONstringify(Obj([option_id |-> parseInt(optionId)]))]

\* A response body: text that is not JSON, or the text of a JSON value.
TextBody == [t |-> "text"]
JsonBody(v) == [t |-> "json", v |-> v]

Response(status, statusText, body) ==
    [status |-> status, statusText |-> statusText, body |-> body]

\* response.ok
ResponseOk(response) == response.status >= 200 /\ response.status <= 299

S_JsonSyntax == <<"U","n","e","x","p","e","c","t","e","d"," ","t","o","k","e","n">>
S_SyntaxError == <<"S","y","n","t","a","x","E","r","r","o","r">>
S_TypeError == <<"T","y","p","e","E","r","r","o","r">>

Fulfilled(v) == [state |-> "fulfilled", value |-> v]
Rejected(v) == [state |-> "rejected", value |-> v]
Pending == [state |-> "pending", value |-> Undefined]

\* How the promise of response.json() settles: with the decoded value, or
\* rejected with the decoder's SyntaxError when the body is not JSON.
ResponseJson(response) ==
    IF response.body.t = "json" THEN Fulfilled(response.body.v)
    ELSE Rejected(ErrorObj(S_SyntaxError, S_JsonSyntax))

(***************************************************************************)
(* The error normalisation of both functions.                              *)
(***************************************************************************)
\* let errorMessage = `HTTP ${response.status}: ${response.statusText}`
FallbackMessage(response) ==
    Str(S_HTTP \o NumToStr(response.status) \o S_ColonSpace \o response.statusText)

\* errorData.detail: reading a property of null or undefined throws a
\* TypeError; of any other value without the property it gives undefined.
PropertyThrows(errorData) == errorData.t \in {"null", "undefined"}
Detail(errorData) ==
    IF errorData.t = "obj" /\ "detail" \in DOMAIN errorData.fields
    THEN errorData.fields["detail"]
    ELSE Undefined

\* The value of errorMessage after the inner try/catch; errorMessage holds
\* the fallback and json is how the promise of response.json() settled.
ErrorMessageAfter(errorMessage, json) ==
    IF json.state = "rejected" \/ PropertyThrows(json.value)
    THEN errorMessage
    ELSE IF Truthy(Detail(json.value)) THEN Detail(json.value)
         ELSE errorMessage

\* The branch with the fallback put before the detail.
NotOkThrownWithStatus(errorMessage, json) ==
    IF json.state = "fulfilled" /\ ~PropertyThrows(json.value)
       /\ Truthy(Detail(json.value))
    THEN NewError(Str(ToStringJS(errorMessage) \o S_ColonSpace
                        \o ToStringJS(Detail(json.value))))
    ELSE NewError(errorMessage)

\* The branch without its inner try/catch: a decoding failure escapes.
NotOkThrownNoInnerCatch(errorMessage, json) ==
    IF json.state = "rejected" THEN json.value
    ELSE NewError(ErrorMessageAfter(errorMessage, json))

\* if (!response.ok) { ... throw new Error(errorMessage) }: the value thrown.
NotOkThrown(errorMessage, json) == NewError(ErrorMessageAfter(errorMessage, json))

\* The outer handler wrapping whatever it catches.
CatchOuterWrapAll(error) ==
    NewError(Str(S_NetworkError \o ToStringJS(error)))

\* catch (error) { ... }: the value the call rejects with.
CatchOuter(error) ==
    IF InstanceOfError(error) THEN error
    ELSE NewError(Str(S_NetworkError \o ToStringJS(error)))

\* The value returned with the tallies sorted by vote count, highest first
\* (sequences of at most two tallies).
ReturnValueSorted(value) ==
    IF value.t = "obj" /\ "results" \in DOMAIN value.fields
       /\ value.fields["results"].t = "arr"
       /\ Len(value.fields["results"].items) = 2
       /\ value.fields["results"].items[1].fields["vote_count"].n
            < value.fields["results"].items[2].fields["vote_count"].n
    THEN Obj([value.fields EXCEPT !["results"] =
                Arr(<<value.fields["results"].items[2],
                      value.fields["results"].items[1]>>)])
    ELSE value

\* return voteData / return pollResults: the decoded value itself.
ReturnValue(value) == value

(***************************************************************************)
(* The poll service the client talks to: one poll with two options.        *)
(***************************************************************************)
Options == {1, 2}
KnownPoll == <<"1">>
ValidToken == <<"t","k">>
S_PollNotFound == <<"P","o","l","l"," ","n","o","t"," ","f","o","u","n","d">>
S_OptionNotFound == <<"O","p","t","i","o","n"," ","n","o","t"," ","f","o","u","n","d">>
S_NotAuthenticated == <<"N","o","t"," ","a","u","t","h","e","n","t","i","c","a","t","e","d">>
S_NotFound == <<"N","o","t"," ","F","o","u","n","d">>
S_Unauthorized == <<"U","n","a","u","t","h","o","r","i","z","e","d">>
S_Unprocessable == <<"U","n","p","r","o","c","e","s","s","a","b","l","e"," ",
                     "E","n","t","i","t","y">>
S_InternalServerError == <<"I","n","t","e","r","n","a","l"," ","S","e","r","v","e","r",
                           " ","E","r","r","o","r">>
S_OK == <<"O","K">>

DetailBody(detail) == JsonBody(Obj([detail |-> detail]))

TotalVotes(tl) == tl[1] + tl[2]

\* success body of POST /polls/{pollId}/vote
VoteRecord(id, optionId) ==
    Obj([id |-> Num(id), user_id |-> Num(1), option_id |-> Num(optionId),
         created_at |-> Str(<<"T">>)])

Tally(optionId, text, count) ==
    Obj([option_id |-> Num(optionId), text |-> Str(text), vote_count |-> Num(count)])

\* success body of GET /polls/{pollId}/results
PollResults(tl) ==
    Obj([poll_id |-> Num(1), question |-> Str(<<"Q","?">>),
         results |-> Arr(<<Tally(1, <<"A">>, tl[1]), Tally(2, <<"B">>, tl[2])>>)])

\* A validation failure: the detail is a list of error objects.
ValidationBody ==
    DetailBody(Arr(<<Obj([msg |-> Str(<<"i","n","t">>)])>>))

\* The service's answer to request req with tallies tl, and the tallies after.
ServiceAnswer(req, tl) ==
    IF req.method = "GET" THEN
        IF req.url = S_Base \o KnownPoll \o S_Results
        THEN [response |-> Response(200, S_OK, JsonBody(PollResults(tl))),
              tallies |-> tl]
        ELSE [response |-> Response(404, S_NotFound, DetailBody(Str(S_PollNotFound))),
              tallies |-> tl]
    ELSE IF "Authorization" \notin DOMAIN req.headers
            \/ req.headers["Authorization"] # S_Bearer \o ValidToken
    THEN [response |-> Response(401, S_Unauthorized,
                                DetailBody(Str(S_NotAuthenticated))),
          tallies |-> tl]
    ELSE IF req.url # S_Base \o KnownPoll \o S_Vote
    THEN [response |-> Response(404, S_NotFound, DetailBody(Str(S_PollNotFound))),
          tallies |-> tl]
    ELSE IF req.body.t # "obj" \/ "option_id" \notin DOMAIN req.body.fields
    THEN [response |-> Response(422, S_Unprocessable, ValidationBody), tallies |-> tl]
    ELSE IF req.body.fields["option_id"].t # "num"
    THEN [response |-> Response(422, S_Unprocessable, ValidationBody), tallies |-> tl]
    ELSE IF req.body.fields["option_id"].n \notin Options
    THEN [response |-> Response(404, S_NotFound, DetailBody(Str(S_OptionNotFound))),
          tallies |-> tl]
    ELSE [response |-> Response(200, S_OK,
                JsonBody(VoteRecord(TotalVotes(tl) + 1,
                                    req.body.fields["option_id"].n))),
          tallies |-> [tl EXCEPT ![req.body.fields["option_id"].n] = @ + 1]]

(***************************************************************************)
(* Inputs.                                                                 *)
(***************************************************************************)
PollIds == {KnownPoll, <<"9">>}
Tokens == {ValidToken, <<"b","a","d">>}
OptionChars == {"1", "2", "0", "-", "+", " ", "x"}
OptionIds == UNION {[1..n -> OptionChars] : n \in 0..MaxLen}

S_fetchFailed == <<"f","e","t","c","h"," ","f","a","i","l","e","d">>
S_ECONNREFUSED == <<"E","C","O","N","N","R","E","F","U","S","E","D">>

\* What a transport failure rejects the promise of fetch with: the TypeError
\* of the fetch standard, or whatever value a substituted transport rejects
\* with.
TransportErrors ==
    {ErrorObj(S_TypeError, S_fetchFailed), Str(S_ECONNREFUSED), Null,
     Obj([code |-> Str(S_ECONNREFUSED)])}

\* Bodies of non-success responses: not JSON, or JSON of any shape.
ErrorBodies ==
    {TextBody, JsonBody(Null), JsonBody(Num(5)), JsonBody(Str(<<"o","o","p","s">>)),
     JsonBody(Bool(TRUE)), JsonBody(Arr(<<>>)), JsonBody(Obj(<<>>)),
     JsonBody(Obj([message |-> Str(S_PollNotFound)])),
     DetailBody(Str(S_PollNotFound)), DetailBody(Str(<<>>)),
     DetailBody(Num(42)), DetailBody(Num(0)), DetailBody(Null),
     DetailBody(Bool(TRUE)), DetailBody(Bool(FALSE)),
     DetailBody(Arr(<<>>)), ValidationBody,
     DetailBody(Obj([code |-> Num(7)]))}

ErrorStatuses ==
    {<<404, S_NotFound>>, <<500, S_InternalServerError>>, <<503, <<>>>>}

\* Bodies of success responses: not JSON, a vote record, a result set whose
\* tallies are in no particular order, or another JSON value.
SuccessBodies ==
    {TextBody, JsonBody(Null), JsonBody(VoteRecord(3, 1)), JsonBody(VoteRecord(4, 2)),
     JsonBody(PollResults((1 :> 1) @@ (2 :> 5))),
     JsonBody(PollResults((1 :> 4) @@ (2 :> 0)))}

Responses ==
    {Response(st[1], st[2], b) : st \in ErrorStatuses, b \in ErrorBodies}
        \cup {Response(200, S_OK, b) : b \in SuccessBodies}
        \cup {Response(204, <<>>, TextBody)}

\* The reduced inputs of the concurrent specification.
ConcOptionIds == {<<"1">>, <<"x">>}
ConcResponses ==
    {Response(500, S_InternalServerError, TextBody),
     Response(200, S_OK, JsonBody(PollResults((1 :> 1) @@ (2 :> 5))))}
ConcTransportErrors == {ErrorObj(S_TypeError, S_fetchFailed)}

(***************************************************************************)
(* State.                                                                  *)
(*   call[c]   the invocation c: its position, its arguments and locals    *)
(*   sent[c]   the requests invocation c handed to fetch, in order         *)
(*   net[c]    how the promise of c's fetch settled, if it has             *)
(*   tallies   the service's vote count of each option                     *)
(***************************************************************************)
NotCaught == [t |-> "none"]
NoNet == [t |-> "none"]

IdleCall ==
    [pc |-> "idle", fn |-> "none", pollId |-> <<>>, optionId |-> <<>>,
     token |-> <<>>, errorMessage |-> Undefined, error |-> NotCaught,
     outcome |-> Pending]

Init ==
    /\ call = [c \in Calls |-> IdleCall]
    /\ sent = [c \in Calls |-> <<>>]
    /\ net = [c \in Calls |-> NoNet]
    /\ tallies \in {[o \in Options |-> 0], (1 :> 0) @@ (2 :> 2)}

\* The response read through a binding shared by all invocations.
ResponseOfShared(c) ==
    net[CHOOSE d \in Calls : net[d].t = "response"].r

\* const response = await fetch(...): the invocation's own response.
ResponseOf(c) == net[c].r

(***************************************************************************)
(* The client: one action per stretch of code between two awaits.          *)
(***************************************************************************)
\* submitVote up to its first await: the request is built and handed to fetch.
submitVote(c, pollId, optionId, token) ==
    /\ call[c].pc = "idle"
    /\ call' = [call EXCEPT ![c] =
                  [@ EXCEPT !.pc = "awaitFetch", !.fn = "submitVote",
                            !.pollId = pollId, !.optionId = optionId,
                            !.token = token]]
    /\ sent' = [sent EXCEPT ![c] = Append(@, VoteRequest(pollId, optionId, token))]
    /\ UNCHANGED <<net, tallies>>

\* fetchPollResults up to its first await.
fetchPollResults(c, pollId) ==
    /\ call[c].pc = "idle"
    /\ call' = [call EXCEPT ![c] =
                  [@ EXCEPT !.pc = "awaitFetch", !.fn = "fetchPollResults",
                            !.pollId = pollId]]
    /\ sent' = [sent EXCEPT ![c] = Append(@, ResultsRequest(pollId))]
    /\ UNCHANGED <<net, tallies>>

\* The handler sending the request again instead of giving up.
OnFetchRejectedRetry(c, error) ==
    /\ sent' = [sent EXCEPT ![c] = Append(@, @[Len(@)])]
    /\ net' = [net EXCEPT ![c] = NoNet]
    /\ UNCHANGED call

\* await fetch(...) rejected: control passes to the outer handler, which
\* ends the call.
OnFetchRejected(c, error) ==
    /\ call' = [call EXCEPT ![c] =
                  [@ EXCEPT !.pc = "done", !.error = error,
                            !.outcome = Rejected(CatchOuter(error))]]
    /\ UNCHANGED <<sent, net>>

\* await fetch(...) fulfilled: the ok test, the fallback message, and the
\* call of response.json() on either branch.
OnFetchFulfilled(c, response) ==
    /\ call' = [call EXCEPT ![c] =
                  IF ResponseOk(response)
                  THEN [@ EXCEPT !.pc = "awaitJson"]
                  ELSE [@ EXCEPT !.pc = "awaitErrorJson",
                                 !.errorMessage = FallbackMessage(response)]]
    /\ UNCHANGED <<sent, net>>

AfterFetch(c) ==
    /\ call[c].pc = "awaitFetch"
    /\ net[c].t # "none"
    /\ IF net[c].t = "failure"
       THEN OnFetchRejected(c, net[c].thrown)
       ELSE OnFetchFulfilled(c, ResponseOf(c))
    /\ UNCHANGED tallies

\* The non-success branch after await response.json(): the inner try/catch,
\* throw new Error(errorMessage), and the outer handler.
AfterErrorJson(c) ==
    /\ call[c].pc = "awaitErrorJson"
    /\ LET json == ResponseJson(ResponseOf(c))
           thrown == NotOkThrown(call[c].errorMessage, json)
       IN  call' = [call EXCEPT ![c] =
                      [@ EXCEPT !.pc = "done",
                                !.errorMessage =
                                    ErrorMessageAfter(call[c].errorMessage, json),
                                !.error = thrown,
                                !.outcome = Rejected(CatchOuter(thrown))]]
    /\ UNCHANGED <<sent, net, tallies>>

\* The success branch after await response.json(): the value is returned, or
\* the decoding failure passes to the outer handler.
AfterJson(c) ==
    /\ call[c].pc = "awaitJson"
    /\ LET json == ResponseJson(ResponseOf(c))
       IN  call' = [call EXCEPT ![c] =
                      IF json.state = "fulfilled"
                      THEN [@ EXCEPT !.pc = "done",
                                     !.outcome = Fulfilled(ReturnValue(json.value))]
                      ELSE [@ EXCEPT !.pc = "done", !.error = json.value,
                                     !.outcome = Rejected(CatchOuter(json.value))]]
    /\ UNCHANGED <<sent, net, tallies>>

(***************************************************************************)
(* The network and the service.                                            *)
(***************************************************************************)
\* The service handles the request of c and answers by its contract.
ServiceHandle(c) ==
    /\ call[c].pc = "awaitFetch"
    /\ net[c].t = "none"
    /\ LET answer == ServiceAnswer(sent[c][Len(sent[c])], tallies)
       IN  /\ net' = [net EXCEPT ![c] =
                        [t |-> "response", r |-> answer.response,
                         by |-> "service", epoch |-> TotalVotes(tallies)]]
           /\ tallies' = answer.tallies
    /\ UNCHANGED <<call, sent>>

\* Any other response reaches c: a gateway's error page, a malformed body.
Respond(c, response) ==
    /\ call[c].pc = "awaitFetch"
    /\ net[c].t = "none"
    /\ net' = [net EXCEPT ![c] =
                 [t |-> "response", r |-> response, by |-> "other", epoch |-> 0]]
    /\ UNCHANGED <<call, sent, tallies>>

\* No response is ever obtained: the promise of fetch rejects with error.
TransportFail(c, error) ==
    /\ call[c].pc = "awaitFetch"
    /\ net[c].t = "none"
    /\ net' = [net EXCEPT ![c] = [t |-> "failure", thrown |-> error]]
    /\ UNCHANGED <<call, sent, tallies>>

\* One invocation, with every input and every response of the model.
Next ==
    \/ \E p \in PollIds, o \in OptionIds, k \in Tokens : submitVote(1, p, o, k)
    \/ \E p \in PollIds : fetchPollResults(1, p)
    \/ AfterFetch(1)
    \/ AfterErrorJson(1)
    \/ AfterJson(1)
    \/ ServiceHandle(1)
    \/ \E r \in Responses : Respond(1, r)
    \/ \E e \in TransportErrors : TransportFail(1, e)

Spec == Init /\ [][Next]_vars

\* NCalls invocations running concurrently, with the reduced inputs.
NextConc ==
    \E c \in Calls :
        \/ \E o \in ConcOptionIds : submitVote(c, KnownPoll, o, ValidToken)
        \/ fetchPollResults(c, KnownPoll)
        \/ AfterFetch(c)
        \/ AfterErrorJson(c)
        \/ AfterJson(c)
        \/ ServiceHandle(c)
        \/ \E r \in ConcResponses : Respond(c, r)
        \/ \E e \in ConcTransportErrors : TransportFail(c, e)

SpecConc == Init /\ [][NextConc]_vars

(***************************************************************************)
(* Vocabulary of the properties.                                           *)
(***************************************************************************)
Done(c) == call[c].pc = "done"
Started(c) == call[c].pc # "idle"
GotResponse(c) == net[c].t = "response"
RejectedWithError(c) ==
    call[c].outcome.state = "rejected" /\ InstanceOfError(call[c].outcome.value)
Message(c) == call[c].outcome.value.message

StartsWith(s, prefix) ==
    Len(s) >= Len(prefix) /\ SubSeq(s, 1, Len(prefix)) = prefix
Contains(s, part) ==
    \E i \in 1..(Len(s) + 1) :
        i + Len(part) - 1 <= Len(s) /\ SubSeq(s, i, i + Len(part) - 1) = part

\* The "HTTP <status>: <statusText>" message, put together from the digits.
HttpMessage(response) ==
    <<"H","T","T","P"," ">> \o NumToStr(response.status) \o <<":"," ">>
        \o response.statusText
S_HTTP500 ==
    <<"H","T","T","P"," ","5","0","0",":"," ">> \o S_InternalServerError

\* The body is a JSON object with a non-empty string detail.
HasStringDetail(body) ==
    /\ body.t = "json"
    /\ body.v.t = "obj"
    /\ "detail" \in DOMAIN body.v.fields
    /\ body.v.fields["detail"].t = "str"
    /\ body.v.fields["detail"].s # <<>>

(***************************************************************************)
(* C1: whenever the request fails at transport level (the promise of fetch *)
(* rejects and no response is obtained), the call rejects with an error    *)
(* whose message starts with "Network error: " and contains the string     *)
(* form of the underlying failure.                                         *)
(***************************************************************************)
C1_TransportFailureIsPrefixed ==
    \A c \in Calls :
        (Done(c) /\ net[c].t = "failure") =>
            /\ RejectedWithError(c)
            /\ StartsWith(Message(c), S_NetworkError)
            /\ Contains(Message(c), ToStringJS(net[c].thrown))

C3_UndecodableBodyFallsBack ==
    \A c \in Calls :
        (Done(c) /\ GotResponse(c) /\ ~ResponseOk(net[c].r)
            /\ net[c].r.body.t = "text") =>
            /\ RejectedWithError(c)
            /\ Message(c) = HttpMessage(net[c].r)
            /\ call[c].outcome.value # ResponseJson(net[c].r).value
            /\ ((net[c].r.status = 500 /\ net[c].r.statusText = S_InternalServerError)
                    => Message(c) = S_HTTP500)

C3_Witness ==
    \E c \in Calls :
        /\ Done(c)
        /\ GotResponse(c)
        /\ net[c].r = Response(500, S_InternalServerError, TextBody)
        /\ call[c].fn = "submitVote"
        /\ Message(c) = S_HTTP500

(***************************************************************************)
(* C4: a non-success response whose decoded body is of any shape other     *)
(* than an object with a non-empty string detail (detail missing, empty, a *)
(* number, a list, an object; the body null or not an object) makes the    *)
(* call reject with "HTTP <status>: <statusText>".                         *)
(***************************************************************************)
C4_OtherShapesFallBack ==
    \A c \in Calls :
        (Done(c) /\ GotResponse(c) /\ ~ResponseOk(net[c].r)
            /\ net[c].r.body.t = "json" /\ ~HasStringDetail(net[c].r.body)) =>
            /\ RejectedWithError(c)
            /\ Message(c) = HttpMessage(net[c].r)

(***************************************************************************)
(* C5: every invocation of submitVote hands exactly one request to fetch   *)
(* over its whole lifetime, whatever the outcome; nothing is sent again,   *)
(* so N invocations issue N POST requests and two invocations with the     *)
(* same arguments submit two votes.                                        *)
(***************************************************************************)
VoteCalls == {c \in Calls : call[c].fn = "submitVote"}
RECURSIVE PostCount(_)
\* The POST requests issued by the invocations in S.
PostCount(S) ==
    IF S = {} THEN 0
    ELSE LET c == CHOOSE x \in S : TRUE
         IN  Len(SelectSeq(sent[c], LAMBDA q : q.method = "POST"))
                + PostCount(S \ {c})

\* C5: each started invocation has issued exactly one request, and the POST
\* requests number the submitVote invocations.
C5_OneRequestPerInvocation ==
    /\ \A c \in Calls :
            /\ ~Started(c) => sent[c] = <<>>
            /\ Started(c) => Len(sent[c]) = 1
            /\ call[c].fn = "submitVote" => sent[c][1].method = "POST"
    /\ PostCount(Calls) = Cardinality(VoteCalls)

C5_Witness ==
    \E c, d \in Calls :
        /\ c # d
        /\ Done(c) /\ Done(d)
        /\ call[c].fn = "submitVote" /\ call[d].fn = "submitVote"
        /\ call[c].optionId = call[d].optionId
        /\ sent[c] = sent[d]
        /\ call[c].outcome.state = "rejected"
        /\ net[c].t = "failure"
        /\ call[d].outcome.state = "fulfilled"
        /\ PostCount(Calls) = 2

(***************************************************************************)
(* C6: submitVote sends a POST to /polls/{pollId}/vote whose Authorization *)
(* header is "Bearer " and the token verbatim and whose body option_id is  *)
(* the base-10 integer the option identifier denotes; on a success status  *)
(* the value returned is the response body unchanged, so its option_id is  *)
(* that integer whenever the service records the option it was sent.       *)
(***************************************************************************)
\* s is an optional sign followed by digits only.
IsDecimalInteger(s) ==
    LET digits == IF s # <<>> /\ s[1] \in {"+", "-"} THEN Tail(s) ELSE s
    IN  digits # <<>> /\ \A i \in 1..Len(digits) : IsDigit(digits[i])

RECURSIVE DigitsValue(_)
\* The number a digit string denotes, from its last digit backwards.
DigitsValue(z) ==
    IF z = <<>> THEN 0
    ELSE 10 * DigitsValue(SubSeq(z, 1, Len(z) - 1)) + DigitVal(z[Len(z)])

DecimalValue(s) ==
    IF s[1] = "-" THEN 0 - DigitsValue(Tail(s))
    ELSE IF s[1] = "+" THEN DigitsValue(Tail(s))
    ELSE DigitsValue(s)

\* C6: the request of submitVote and the record it returns.
C6_VoteRequestAndRecord ==
    \A c \in Calls :
        (call[c].fn = "submitVote") =>
            /\ sent[c][1].method = "POST"
            /\ sent[c][1].url = S_Base \o call[c].pollId \o <<"/","v","o","t","e">>
            /\ sent[c][1].headers["Authorization"] = S_Bearer \o call[c].token
            /\ IsDecimalInteger(call[c].optionId) =>
                    sent[c][1].body.fields["option_id"]
                        = Num(DecimalValue(call[c].optionId))
            /\ (Done(c) /\ GotResponse(c) /\ ResponseOk(net[c].r)
                    /\ net[c].r.body.t = "json") =>
                    call[c].outcome = Fulfilled(net[c].r.body.v)
            /\ (Done(c) /\ call[c].outcome.state = "fulfilled"
                    /\ IsDecimalInteger(call[c].optionId)
                    /\ net[c].r.body.v.t = "obj"
                    /\ "option_id" \in DOMAIN net[c].r.body.v.fields
                    /\ net[c].r.body.v.fields["option_id"]
                            = sent[c][1].body.fields["option_id"]) =>
                    call[c].outcome.value.fields["option_id"]
                        = Num(DecimalValue(call[c].optionId))

C6_Witness ==
    \E c \in Calls :
        /\ call[c].fn = "submitVote"
        /\ Done(c)
        /\ call[c].optionId = <<"+", "2">>
        /\ GotResponse(c)
        /\ net[c].by = "service"
        /\ call[c].outcome.state = "fulfilled"
        /\ call[c].outcome.value.t = "obj"
        /\ call[c].outcome.value.fields["option_id"] = Num(2)
        /\ tallies[2] > 0

(***************************************************************************)
(* C7: the value a successful fetchPollResults returns is the decoded      *)
(* server payload unchanged: poll_id and question are the server's, and    *)
(* results is the same sequence of tallies in the same order.              *)
(***************************************************************************)
C7_ResultsReturnedVerbatim ==
    \A c \in Calls :
        (call[c].fn = "fetchPollResults" /\ Done(c) /\ GotResponse(c)
            /\ ResponseOk(net[c].r) /\ net[c].r.body.t = "json") =>
            /\ call[c].outcome.state = "fulfilled"
            /\ call[c].outcome.value = net[c].r.body.v
            /\ (net[c].r.body.v.t = "obj"
                    /\ "results" \in DOMAIN net[c].r.body.v.fields) =>
                    /\ call[c].outcome.value.fields["poll_id"]
                            = net[c].r.body.v.fields["poll_id"]
                    /\ call[c].outcome.value.fields["question"]
                            = net[c].r.body.v.fields["question"]
                    /\ call[c].outcome.value.fields["results"].items
                            = net[c].r.body.v.fields["results"].items

C7_Witness ==
    \E c \in Calls :
        /\ call[c].fn = "fetchPollResults"
        /\ Done(c)
        /\ call[c].outcome.state = "fulfilled"
        /\ call[c].outcome.value.t = "obj"
        /\ "results" \in DOMAIN call[c].outcome.value.fields
        /\ LET items == call[c].outcome.value.fields["results"].items
           IN  /\ Len(items) = 2
               /\ items[1].fields["vote_count"].n < items[2].fields["vote_count"].n

(***************************************************************************)
(* C8: two fetchPollResults calls for the same poll with no vote recorded  *)
(* by the service between them return identical content; fetchPollResults *)
(* sends a GET without body and without Authorization header, and the      *)
(* service's handling of it leaves the tallies as they were.               *)
(***************************************************************************)
ResultsRequestIsPlainGet(c) ==
    /\ Len(sent[c]) = 1
    /\ sent[c][1].method = "GET"
    /\ sent[c][1].body = Undefined
    /\ "Authorization" \notin DOMAIN sent[c][1].headers
    /\ sent[c][1].url = S_Base \o call[c].pollId \o <<"/","r","e","s","u","l","t","s">>

AnsweredByService(c) == GotResponse(c) /\ net[c].by = "service"

C8_Inv ==
    /\ \A c \in Calls :
            (call[c].fn = "fetchPollResults") => ResultsRequestIsPlainGet(c)
    /\ \A c, d \in Calls :
            (/\ call[c].fn = "fetchPollResults" /\ call[d].fn = "fetchPollResults"
             /\ call[c].pollId = call[d].pollId
             /\ Done(c) /\ Done(d)
             /\ AnsweredByService(c) /\ AnsweredByService(d)
             /\ net[c].epoch = net[d].epoch) =>
                /\ call[c].outcome.state = "fulfilled"
                /\ call[c].outcome = call[d].outcome

C8_ServingResultsKeepsTallies ==
    \A c \in Calls :
        (call[c].fn = "fetchPollResults" /\ net[c].t = "none" /\ net'[c].t # "none")
            => tallies' = tallies

\* C8: repeated fetches with no vote between them agree, and fetching
\* changes no tally.
C8_RepeatedFetchIsIdentical ==
    [](C8_Inv) /\ [][C8_ServingResultsKeepsTallies]_vars

C8_Witness ==
    \E c, d \in Calls :
        /\ c # d
        /\ call[c].fn = "fetchPollResults" /\ call[d].fn = "fetchPollResults"
        /\ Done(c) /\ Done(d)
        /\ AnsweredByService(c) /\ AnsweredByService(d)
        /\ net[c].epoch = net[d].epoch
        /\ call[c].outcome.state = "fulfilled"
        /\ call[c].outcome.value = PollResults(tallies)
        /\ call[d].outcome.value = PollResults(tallies)
        /\ tallies[2] = 2

(***************************************************************************)
(* C9: concurrent calls are independent: under every interleaving of the   *)
(* request, response and decoding steps, a call's outcome is determined by *)
(* its own arguments and the response to its own request, and no step of   *)
(* one call reads or writes the state of another.                          *)
(***************************************************************************)
\* The request the arguments of c alone determine.
OwnRequest(c) ==
    IF call[c].fn = "submitVote"
    THEN VoteRequest(call[c].pollId, call[c].optionId, call[c].token)
    ELSE ResultsRequest(call[c].pollId)

\* The outcome the settlement of c's own fetch alone determines.
OwnOutcome(c) ==
    IF net[c].t = "failure" THEN Rejected(CatchOuter(net[c].thrown))
    ELSE LET r == net[c].r
             json == ResponseJson(r)
         IN  IF ~ResponseOk(r)
             THEN Rejected(CatchOuter(NotOkThrown(FallbackMessage(r), json)))
             ELSE IF json.state = "fulfilled" THEN Fulfilled(json.value)
             ELSE Rejected(CatchOuter(json.value))

C9_Inv ==
    \A c \in Calls :
        /\ Started(c) => sent[c] = <<OwnRequest(c)>>
        /\ Done(c) => call[c].outcome = OwnOutcome(c)
        /\ ~Done(c) => call[c].outcome = Pending

\* A step touches the call record, requests and response of one call only,
\* and a step of the client leaves the service's tallies alone.
C9_StepIsLocal ==
    /\ \E c \in Calls :
            \A d \in Calls \ {c} :
                call'[d] = call[d] /\ sent'[d] = sent[d] /\ net'[d] = net[d]
    /\ (call' # call \/ sent' # sent) => tallies' = tallies

\* C9: outcomes depend on the own request and response only, and steps are
\* local to one call.
C9_CallsAreIndependent ==
    [](C9_Inv) /\ [][C9_StepIsLocal]_vars

C9_Witness ==
    \E c, d \in Calls :
        /\ c # d
        /\ Done(d)
        /\ call[c].pc = "awaitJson"
        /\ call[d].outcome.state = "rejected"
        /\ GotResponse(c) /\ GotResponse(d)
        /\ net[c].r # net[d].r

====
